---- MODULE Spec2Model ----
(***************************************************************************)
(* Upload lifecycle tracker of the web3.storage website:                   *)
(* packages/website/components/contexts/uploadsContext.js (UploadsProvider)*)
(* together with the reducer of useUploadProgress it drives.               *)
(*                                                                         *)
(* React is modelled by what it gives the code: every handler is a closure *)
(* of the last render and reads `rendered`, the progress.files of that     *)
(* render; every dispatch is applied to `files`, the reducer's state; the  *)
(* action Render commits `files` to `rendered` and runs the effect.        *)
(*                                                                         *)
(* progress.files and the lists built from it are kept as sets of entries  *)
(* (their order decides nothing in this code); filesToUpload is kept as    *)
(* the number of times each File occurs in the list.                       *)
(*                                                                         *)
(* The table user_customer of packages/db/postgres/migrations/             *)
(* 023-add-user-customer-table.sql is modelled beside it, under its own    *)
(* specification SpecDb: the two share no state.                           *)
(***************************************************************************)
EXTENDS Integers, Sequences, FiniteSets, TLC

\* ------------------------------------------------------------- bounds
MaxBytes == 2      \* sizes the transfer reports to onStoredChunk

Files == {"A", "B"}        \* the File objects the user can submit
Callers == {"c1", "c2"}    \* event handlers that call uploadFiles
Errors == {"E1", "E2"}     \* errors client.put can reject with
TypeError == "TypeError"   \* raised by `client.put` when client is undefined

\* the database
MaxSerial == 3                          \* values user_customer_id_seq hands out
NULL == "NULL"
UserRows == {"u1", "u2"}                \* ids of the rows of public.user
UserIds == UserRows \cup {"u3", NULL}   \* values an INSERT can give for user_id
CustomerIds == {"cus_1", "cus_2", NULL} \* values an INSERT can give for customer_id

\* STATUS
PENDING == "pending"
UPLOADING == "uploading"
COMPLETED == "completed"
FAILED == "failed"

VARIABLES
  client,         \* module-level `let client`: 0 = undefined, k = k-th instance built
  files,          \* progress.files, the reducer's current state: set of entries
  rendered,       \* progress.files as captured by the closures of the last render
  filesToUpload,  \* useState filesToUpload: occurrences of each File in the list
  calls,          \* per caller: its uploadFiles call suspended at `await getToken()`
  xfer,           \* per file: state of the promise returned by client.put
  xferErr,        \* per file: the error client.put raised
  putCount,       \* per file: number of client.put invocations
  putClient,      \* per file: the client instance the last put was invoked on
  hlog,           \* per file: calls made by the async handler after its put settled
  refetchCount,   \* number of refetch() invocations
  ret,            \* value returned by clearUploadedFiles in the last step
  user_customer,        \* the table: set of rows [id, user_id, customer_id]
  user_customer_id_seq, \* last value handed out by the sequence behind BIGSERIAL
  sqlstate              \* SQLSTATE of the last INSERT, "none" before the first

vars == <<client, files, rendered, filesToUpload, calls, xfer, xferErr,
          putCount, putClient, hlog, refetchCount, ret>>

dbvars == <<user_customer, user_customer_id_seq, sqlstate>>

allvars == <<vars, dbvars>>

\* ------------------------------------------------------------- helpers
\* the File objects a set of entries tracks
Tracked(entries) == {e.inputFile : e \in entries}

\* the entries of File f in a set of entries
EntriesOf(entries, f) == {e \in entries : e.inputFile = f}

EntryOf(entries, f) == CHOOSE e \in entries : e.inputFile = f

\* ------------------------------------------------------------- useUploadProgress
\* A new entry of the tracker.
PendingEntry(f) ==
  [inputFile |-> f, status |-> PENDING, bytes |-> 0, error |-> "none"]

\* initialize(list): the tracked set becomes the identities of `list`; an
\* identity that is tracked keeps its entry, an identity that is not gets a
\* pending entry, a repeated identity is taken once.
Initialize(cur, list) ==
  {IF f \in Tracked(cur) THEN EntryOf(cur, f) ELSE PendingEntry(f) : f \in list}

\* updateFileProgress(file, size): the entry of a transfer that has begun
\* (pending or uploading) is uploading with byte counter `size`.
UpdateFileProgress(cur, f, size) ==
  {IF e.inputFile = f /\ e.status \in {PENDING, UPLOADING}
   THEN [e EXCEPT !.status = UPLOADING, !.bytes = size]
   ELSE e : e \in cur}

\* markFileCompleted(file): silent when there is no entry or it is terminal.
MarkFileCompleted(cur, f) ==
  {IF e.inputFile = f /\ e.status \in {PENDING, UPLOADING}
   THEN [e EXCEPT !.status = COMPLETED]
   ELSE e : e \in cur}

\* markFileFailed(file, error): silent when there is no entry or it is terminal.
MarkFileFailed(cur, f, err) ==
  {IF e.inputFile = f /\ e.status \in {PENDING, UPLOADING}
   THEN [e EXCEPT !.status = FAILED, !.error = err]
   ELSE e : e \in cur}

\* ------------------------------------------------------------- initial state
Idle == [pc |-> "idle", snapshot |-> {}, files |-> {}]

Init ==
  /\ client = 0
  /\ files = {}
  /\ rendered = {}
  /\ filesToUpload = [f \in Files |-> 0]
  /\ calls = [c \in Callers |-> Idle]
  /\ xfer = [f \in Files |-> "none"]
  /\ xferErr = [f \in Files |-> "none"]
  /\ putCount = [f \in Files |-> 0]
  /\ putClient = [f \in Files |-> 0]
  /\ hlog = [f \in Files |-> <<>>]
  /\ refetchCount = 0
  /\ ret = "none"

\* file lists a caller can hand to uploadFiles
Submissions == (SUBSET Files) \ {{}}

\* ------------------------------------------------------------- uploadFiles
\* the list without the entries already tracked: initialize(files)
ConcatListOnlyNew(snapshot, fs) == fs

\* Object.values(progress.files).concat(files), by identity
ConcatList(snapshot, fs) == Tracked(snapshot) \cup fs

\* uploadFiles(fs) adding a pending entry per submitted file to the entries
\* it read, without handing the list to initialize
UploadFilesAppend(fs) ==
  /\ client # 0
  /\ files' = files \cup {PendingEntry(f) : f \in fs}
  /\ ret' = "none"
  /\ UNCHANGED <<client, rendered, filesToUpload, calls, xfer, xferErr,
                 putCount, putClient, hlog, refetchCount>>
  /\ UNCHANGED dbvars

\* uploadFiles(fs) when `client` is set: no await is reached, the call runs
\* to its end in one step.
UploadFiles(fs) ==
  /\ client # 0
  /\ files' = Initialize(files, ConcatList(rendered, fs))
  /\ ret' = "none"
  /\ UNCHANGED <<client, rendered, filesToUpload, calls, xfer, xferErr,
                 putCount, putClient, hlog, refetchCount>>
  /\ UNCHANGED dbvars

\* uploadFiles(fs) when `client` is undefined: `client ||` has been found
\* falsy and the call is suspended at `await getToken()`.
UploadFilesAwait(c, fs) ==
  /\ client = 0
  /\ calls[c].pc = "idle"
  /\ calls' = [calls EXCEPT ![c] =
                 [pc |-> "getToken", snapshot |-> rendered, files |-> fs]]
  /\ ret' = "none"
  /\ UNCHANGED <<client, files, rendered, filesToUpload, xfer, xferErr,
                 putCount, putClient, hlog, refetchCount>>
  /\ UNCHANGED dbvars

\* the suspended call resuming without assigning the client it built
UploadFilesResumeNoClient(c) ==
  /\ calls[c].pc = "getToken"
  /\ client' = client
  /\ files' = Initialize(files, ConcatList(calls[c].snapshot, calls[c].files))
  /\ calls' = [calls EXCEPT ![c] = Idle]
  /\ ret' = "none"
  /\ UNCHANGED <<rendered, filesToUpload, xfer, xferErr,
                 putCount, putClient, hlog, refetchCount>>
  /\ UNCHANGED dbvars

\* getToken() resolved: the suspended call builds a client, assigns it and
\* calls initialize with the progress.files of its own closure.
UploadFilesResume(c) ==
  /\ calls[c].pc = "getToken"
  /\ client' = client + 1
  /\ files' = Initialize(files, ConcatList(calls[c].snapshot, calls[c].files))
  /\ calls' = [calls EXCEPT ![c] = Idle]
  /\ ret' = "none"
  /\ UNCHANGED <<rendered, filesToUpload, xfer, xferErr,
                 putCount, putClient, hlog, refetchCount>>
  /\ UNCHANGED dbvars

\* getToken() rejected: the call ends without assigning or initializing.
GetTokenFails(c) ==
  /\ calls[c].pc = "getToken"
  /\ calls' = [calls EXCEPT ![c] = Idle]
  /\ ret' = "none"
  /\ UNCHANGED <<client, files, rendered, filesToUpload, xfer, xferErr,
                 putCount, putClient, hlog, refetchCount>>
  /\ UNCHANGED dbvars

\* ------------------------------------------------------------- clearUploadedFiles
\* Object.values(progress.files).filter(({ status }) => status !== COMPLETED)
ClearList(snapshot) == Tracked({e \in snapshot : e.status # COMPLETED})

\* !!Object.values(progress.files).length
ClearResult(snapshot) == IF Cardinality(snapshot) # 0 THEN "true" ELSE "false"

ClearUploadedFiles ==
  /\ files' = Initialize(files, ClearList(rendered))
  /\ ret' = ClearResult(rendered)
  /\ UNCHANGED <<client, rendered, filesToUpload, calls, xfer, xferErr,
                 putCount, putClient, hlog, refetchCount>>
  /\ UNCHANGED dbvars

\* ------------------------------------------------------------- the effect
\* newFilesToUpload without the filter on filesToUpload
NewFilesToUploadAll(snapshot, tracked) == snapshot

\* newFilesToUpload cut to one entry per run of the effect (one transfer
\* at a time)
NewFilesToUploadOne(snapshot, tracked) ==
  LET new == {e \in snapshot : tracked[e.inputFile] = 0} IN
    IF new = {} THEN {} ELSE {CHOOSE e \in new : TRUE}

\* newFilesToUpload: the entries of progress.files whose inputFile is not
\* found in filesToUpload
NewFilesToUpload(snapshot, tracked) ==
  {e \in snapshot : tracked[e.inputFile] = 0}

\* the effect body with setFilesToUpload(newFilesToUpload): the list is
\* replaced by the new entries, not extended by them
StartUploadsReplace(new) ==
  /\ filesToUpload' =
       [f \in Files |-> Cardinality(EntriesOf(new, f))]
  /\ putCount' = [f \in Files |-> putCount[f] + Cardinality(EntriesOf(new, f))]
  /\ IF client # 0
     THEN /\ xfer' = [f \in Files |-> IF f \in Tracked(new) THEN "inflight" ELSE xfer[f]]
          /\ putClient' = [f \in Files |-> IF f \in Tracked(new) THEN client ELSE putClient[f]]
          /\ UNCHANGED <<files, xferErr, hlog>>
     ELSE /\ xfer' = [f \in Files |-> IF f \in Tracked(new) THEN "failed" ELSE xfer[f]]
          /\ xferErr' = [f \in Files |-> IF f \in Tracked(new) THEN TypeError ELSE xferErr[f]]
          /\ files' = {IF e.inputFile \in Tracked(new) /\ e.status \in {PENDING, UPLOADING}
                       THEN [e EXCEPT !.status = FAILED, !.error = TypeError]
                       ELSE e : e \in files}
          /\ hlog' = [f \in Files |->
                        IF f \in Tracked(new)
                        THEN hlog[f] \o <<[op |-> "markFileFailed", error |-> TypeError]>>
                        ELSE hlog[f]]
          /\ UNCHANGED putClient

\* The effect body for the entries of newFilesToUpload: each async handler
\* runs up to `await client.put(...)`.  With `client` undefined the call
\* throws inside the try block and the catch branch runs at once.
StartUploads(new) ==
  /\ filesToUpload' =
       [f \in Files |-> filesToUpload[f] + Cardinality(EntriesOf(new, f))]
  /\ putCount' = [f \in Files |-> putCount[f] + Cardinality(EntriesOf(new, f))]
  /\ IF client # 0
     THEN /\ xfer' = [f \in Files |-> IF f \in Tracked(new) THEN "inflight" ELSE xfer[f]]
          /\ putClient' = [f \in Files |-> IF f \in Tracked(new) THEN client ELSE putClient[f]]
          /\ UNCHANGED <<files, xferErr, hlog>>
     ELSE /\ xfer' = [f \in Files |-> IF f \in Tracked(new) THEN "failed" ELSE xfer[f]]
          /\ xferErr' = [f \in Files |-> IF f \in Tracked(new) THEN TypeError ELSE xferErr[f]]
          /\ files' = {IF e.inputFile \in Tracked(new) /\ e.status \in {PENDING, UPLOADING}
                       THEN [e EXCEPT !.status = FAILED, !.error = TypeError]
                       ELSE e : e \in files}
          /\ hlog' = [f \in Files |->
                        IF f \in Tracked(new)
                        THEN hlog[f] \o <<[op |-> "markFileFailed", error |-> TypeError]>>
                        ELSE hlog[f]]
          /\ UNCHANGED putClient

\* A render after a state change, followed by the effect of that render.
Render ==
  /\ rendered # files
  /\ rendered' = files
  /\ ret' = "none"
  /\ LET new == NewFilesToUpload(files, filesToUpload) IN
       IF Cardinality(new) # 0
       THEN StartUploads(new)
       ELSE UNCHANGED <<files, filesToUpload, xfer, xferErr, putCount, putClient, hlog>>
  /\ UNCHANGED <<client, calls, refetchCount>>
  /\ UNCHANGED dbvars

\* ------------------------------------------------------------- the transfer
\* onStoredChunk that also refreshes the account listing
OnStoredChunkRefetch(f, size) ==
  /\ xfer[f] = "inflight"
  /\ files' = UpdateFileProgress(files, f, size)
  /\ refetchCount' = refetchCount + 1
  /\ ret' = "none"
  /\ UNCHANGED <<client, rendered, filesToUpload, calls, xfer, xferErr,
                 putCount, putClient, hlog>>
  /\ UNCHANGED dbvars

\* onStoredChunk: size => updateFileProgress(file, size)
OnStoredChunk(f, size) ==
  /\ xfer[f] = "inflight"
  /\ files' = UpdateFileProgress(files, f, size)
  /\ ret' = "none"
  /\ UNCHANGED <<client, rendered, filesToUpload, calls, xfer, xferErr,
                 putCount, putClient, hlog, refetchCount>>
  /\ UNCHANGED dbvars

\* the catch branch without its `return`: it falls through to
\* markFileCompleted(file); refetch();
CatchBranchNoReturn(f, err) ==
  /\ files' = MarkFileCompleted(MarkFileFailed(files, f, err), f)
  /\ hlog' = [hlog EXCEPT ![f] =
                @ \o << [op |-> "markFileFailed", error |-> err],
                        [op |-> "markFileCompleted", error |-> "none"],
                        [op |-> "refetch", error |-> "none"] >>]
  /\ refetchCount' = refetchCount + 1

\* the catch branch failing every file of the effect run, not its own
CatchBranchAll(f, err) ==
  /\ files' = {IF e.status \in {PENDING, UPLOADING}
               THEN [e EXCEPT !.status = FAILED, !.error = err]
               ELSE e : e \in files}
  /\ hlog' = [hlog EXCEPT ![f] = @ \o <<[op |-> "markFileFailed", error |-> err]>>]
  /\ UNCHANGED refetchCount

\* the catch branch ending with `throw error` instead of `return`
CatchBranchRethrow(f, err) ==
  /\ files' = MarkFileFailed(files, f, err)
  /\ hlog' = [hlog EXCEPT ![f] =
                @ \o << [op |-> "markFileFailed", error |-> err],
                        [op |-> "throw", error |-> err] >>]
  /\ UNCHANGED refetchCount

\* catch (error) { markFileFailed(file, error); console.error(error); return; }
CatchBranch(f, err) ==
  /\ files' = MarkFileFailed(files, f, err)
  /\ hlog' = [hlog EXCEPT ![f] = @ \o <<[op |-> "markFileFailed", error |-> err]>>]
  /\ UNCHANGED refetchCount

\* markFileCompleted(file); refetch();
SuccessBranch(f) ==
  /\ files' = MarkFileCompleted(files, f)
  /\ hlog' = [hlog EXCEPT ![f] =
                @ \o << [op |-> "markFileCompleted", error |-> "none"],
                        [op |-> "refetch", error |-> "none"] >>]
  /\ refetchCount' = refetchCount + 1

\* client.put rejects with error err and the async handler resumes
PutRejected(f, err) ==
  /\ xfer[f] = "inflight"
  /\ xfer' = [xfer EXCEPT ![f] = "failed"]
  /\ xferErr' = [xferErr EXCEPT ![f] = err]
  /\ CatchBranch(f, err)
  /\ ret' = "none"
  /\ UNCHANGED <<client, rendered, filesToUpload, calls, putCount, putClient>>
  /\ UNCHANGED dbvars

\* client.put is fulfilled and the async handler resumes
PutFulfilled(f) ==
  /\ xfer[f] = "inflight"
  /\ xfer' = [xfer EXCEPT ![f] = "succeeded"]
  /\ SuccessBranch(f)
  /\ ret' = "none"
  /\ UNCHANGED <<client, rendered, filesToUpload, calls, xferErr,
                 putCount, putClient>>
  /\ UNCHANGED dbvars

\* ------------------------------------------------------------- specification
Next ==
  \/ \E fs \in Submissions : UploadFiles(fs)
  \/ \E c \in Callers, fs \in Submissions : UploadFilesAwait(c, fs)
  \/ \E c \in Callers : UploadFilesResume(c)
  \/ \E c \in Callers : GetTokenFails(c)
  \/ ClearUploadedFiles
  \/ Render
  \/ \E f \in Files, size \in 1..MaxBytes : OnStoredChunk(f, size)
  \/ \E f \in Files, err \in Errors : PutRejected(f, err)
  \/ \E f \in Files : PutFulfilled(f)

\* ------------------------------------------------------------- user_customer
\* CREATE TABLE IF NOT EXISTS user_customer (...): the table starts empty
DbInit ==
  /\ user_customer = {}
  /\ user_customer_id_seq = 0
  /\ sqlstate = "none"

\* id ... PRIMARY KEY
PrimaryKey(table, id) == \A r \in table : r.id # id

\* user_id ... NOT NULL, customer_id ... NOT NULL
NotNull(v) == v # NULL

\* user_id ... without its UNIQUE constraint
UserIdAny(table, u) == TRUE

\* user_id ... UNIQUE
UserIdUnique(table, u) == \A r \in table : r.user_id # u

\* user_id ... REFERENCES public.user (id)
UserIdReferences(u) == u \in UserRows

\* customer_id ... UNIQUE
CustomerIdUnique(table, c) == \A r \in table : r.customer_id # c

\* SQLSTATE of INSERT INTO user_customer VALUES (id, u, c) on `table`, the
\* id column already evaluated
InsertState(table, id, u, c) ==
  IF ~NotNull(u) \/ ~NotNull(c) THEN "23502"
  ELSE IF ~PrimaryKey(table, id) \/ ~UserIdUnique(table, u)
          \/ ~CustomerIdUnique(table, c) THEN "23505"
  ELSE IF ~UserIdReferences(u) THEN "23503"
  ELSE "00000"

\* the outcome of an INSERT of the row (id, u, c)
Insert(id, u, c) ==
  LET st == InsertState(user_customer, id, u, c) IN
    /\ sqlstate' = st
    /\ user_customer' =
         IF st = "00000"
         THEN user_customer \cup {[id |-> id, user_id |-> u, customer_id |-> c]}
         ELSE user_customer

\* INSERT INTO user_customer (user_id, customer_id) VALUES (u, c): id
\* BIGSERIAL draws the next value of the sequence, which advances whether
\* or not the row is accepted.
InsertDefault(u, c) ==
  /\ user_customer_id_seq < MaxSerial
  /\ user_customer_id_seq' = user_customer_id_seq + 1
  /\ Insert(user_customer_id_seq + 1, u, c)
  /\ UNCHANGED vars

\* INSERT INTO user_customer (id, user_id, customer_id) VALUES (id, u, c)
InsertWithId(id, u, c) ==
  /\ Insert(id, u, c)
  /\ UNCHANGED <<user_customer_id_seq, vars>>

DbNext ==
  \/ \E u \in UserIds, c \in CustomerIds : InsertDefault(u, c)
  \/ \E id \in 1..MaxSerial, u \in UserIds, c \in CustomerIds :
       InsertWithId(id, u, c)

\* ------------------------------------------------------------- specifications
\* the tracker as constructed and the table as created
InitAll == Init /\ DbInit

\* the upload tracker; the table is not touched by it
Spec == InitAll /\ [][Next]_allvars

\* the table under INSERT statements; the tracker stays as constructed
SpecDb == InitAll /\ [][DbNext]_allvars

C3_ReturnsFalseIffEmptyAfter ==
  ret # "none" => (ret = "false" <=> files = {})

\* the step is a call of clearUploadedFiles
IsClearStep == ret' # "none"

\* C4: a call of clearUploadedFiles leaves in the tracked set exactly the
\* entries that were not completed, each unchanged.
C4_ClearRemovesExactlyCompleted ==
  [][IsClearStep => files' = {e \in files : e.status # COMPLETED}]_vars

\* C5: an entry that is completed or failed is in the tracked set, unchanged,
\* after every step, unless it is completed and the step is a
\* clearUploadedFiles that removes it.
C5_TerminalAbsorbing ==
  [][\A e \in files :
       e.status \in {COMPLETED, FAILED} =>
         \/ e \in files'
         \/ /\ e.status = COMPLETED
            /\ IsClearStep
            /\ e.inputFile \notin Tracked(files')]_vars

\* a call of uploadFiles(fs) is made in this step
IsSubmitStep(fs) == UploadFiles(fs) \/ \E c \in Callers : UploadFilesAwait(c, fs)

MarkCalls(log) ==
  SelectSeq(log, LAMBDA call : call.op \in {"markFileCompleted", "markFileFailed"})

\* C7: a transfer that has not settled has had neither call; one that
\* finished without error has had markFileCompleted once and nothing else;
\* one that raised has had markFileFailed once, with the error raised, and
\* nothing else.
C7_ExactlyOneOutcomeCall ==
  \A f \in Files :
    /\ xfer[f] \in {"none", "inflight"} => hlog[f] = <<>>
    /\ xfer[f] = "succeeded" =>
         MarkCalls(hlog[f]) = <<[op |-> "markFileCompleted", error |-> "none"]>>
    /\ xfer[f] = "failed" =>
         MarkCalls(hlog[f]) = <<[op |-> "markFileFailed", error |-> xferErr[f]]>>

\* C7 witness: both transfers have settled, one each way.
C7_Witness ==
  /\ xfer["A"] = "failed" /\ xferErr["A"] = "E2"
  /\ xfer["B"] = "succeeded"

\* C8: the step in which the transfer of f settles leaves the entry of every
\* other file as it is, and turns the entry of f that is not yet terminal into
\* failed with the error raised, or into completed.
C8_FailureIsolated ==
  [][\A f \in Files :
       (xfer[f] = "inflight" /\ xfer'[f] \in {"failed", "succeeded"}) =>
         /\ {e \in files' : e.inputFile # f} = {e \in files : e.inputFile # f}
         /\ \A e \in files :
              (e.inputFile = f /\ e.status \in {PENDING, UPLOADING}) =>
                IF xfer'[f] = "failed"
                THEN [e EXCEPT !.status = FAILED, !.error = xferErr'[f]] \in files'
                ELSE [e EXCEPT !.status = COMPLETED] \in files']_vars

\* C8 witness: A and B were submitted in one call; A has failed with E1, B
\* has succeeded, no entry has been rendered since the puts.
C8_Witness ==
  /\ client = 1
  /\ rendered = {PendingEntry("A"), PendingEntry("B")}
  /\ xfer["A"] = "failed" /\ xferErr["A"] = "E1" /\ xfer["B"] = "succeeded"
  /\ \E e \in files : e.inputFile = "A" /\ e.status = FAILED /\ e.error = "E1"
  /\ \E e \in files : e.inputFile = "B" /\ e.status = COMPLETED

\* C9: refetch has been invoked once per transfer that succeeded and not
\* otherwise, and in a handler's log it directly follows markFileCompleted.
C9_RefetchOncePerSuccess ==
  /\ refetchCount = Cardinality({f \in Files : xfer[f] = "succeeded"})
  /\ \A f \in Files : \A k \in 1..Len(hlog[f]) :
       hlog[f][k].op = "refetch" =>
         k > 1 /\ hlog[f][k - 1].op = "markFileCompleted"

\* C9 witness: after progress ticks on both files, A failed and B succeeded,
\* and refetch has been invoked once.
C9_Witness ==
  /\ refetchCount = 1
  /\ xfer["A"] = "failed" /\ xfer["B"] = "succeeded"
  /\ \E e \in files : e.inputFile = "A" /\ e.bytes = MaxBytes
  /\ \E e \in files : e.inputFile = "B" /\ e.bytes = 1

\* C10: an identity that is tracked is still tracked after every step that
\* is not a call of clearUploadedFiles.
C10_RemovedOnlyByClear ==
  [][\A f \in Tracked(files) : f \in Tracked(files') \/ IsClearStep]_vars

\* C11: once the effect has run over the tracked set, every entry that is
\* not yet completed or failed has a transfer in flight that will settle it
\* (so that no submitted identity is left pending without a transfer).
C11_PendingHasTransfer ==
  rendered = files =>
    \A e \in files :
      e.status \in {PENDING, UPLOADING} => xfer[e.inputFile] = "inflight"

\* C12: when a transfer raises an error, the handler of that file records
\* the failure on its entry and ends there: the error is not thrown on, no
\* uploadFiles call is affected, and no second put is started for the file,
\* neither in that step nor later.
C12_ErrorBecomesFailedState ==
  /\ [][\A f \in Files :
          (xfer[f] = "inflight" /\ xfer'[f] = "failed") =>
            /\ hlog'[f] = hlog[f] \o
                 <<[op |-> "markFileFailed", error |-> xferErr'[f]]>>
            /\ calls' = calls
            /\ putCount' = putCount
            /\ \A e \in EntriesOf(files, f) :
                 e.status \in {PENDING, UPLOADING} =>
                   [e EXCEPT !.status = FAILED, !.error = xferErr'[f]] \in files']_vars
  /\ [][\A f \in Files :
          xfer[f] = "failed" =>
            /\ xfer'[f] = "failed"
            /\ putCount'[f] = putCount[f]
            /\ hlog'[f] = hlog[f]]_vars

\* a transfer failed, its entry carries the error and has been rendered,
\* the effect has run again, and the file has had its one put only
C12_Witness ==
  \E f \in Files :
    /\ xfer[f] = "failed"
    /\ \E e \in files : e.inputFile = f /\ e.status = FAILED /\ e.error = xferErr[f]
    /\ \E e \in rendered : e.inputFile = f /\ e.status = FAILED
    /\ putCount[f] = 1
    /\ \A c \in Callers : calls[c].pc = "idle"

C14_SingleClient ==
  /\ client <= 1
  /\ \A f \in Files : putCount[f] > 0 => putClient[f] = 1

C16_FanOutAndOwnOutcome ==
  /\ [][rendered' # rendered =>
          \A e \in files :
            filesToUpload[e.inputFile] = 0 =>
              /\ xfer'[e.inputFile] = "inflight"
              /\ putCount'[e.inputFile] = putCount[e.inputFile] + 1]_vars
  /\ [][\A e \in files' :
          /\ e.status = COMPLETED => xfer'[e.inputFile] = "succeeded"
          /\ e.status = FAILED =>
               xfer'[e.inputFile] = "failed" /\ e.error = xferErr'[e.inputFile]]_vars
  /\ [][\A f \in Files :
          (xfer[f] = "inflight" /\ xfer'[f] # "inflight") =>
            /\ \A e \in files : e.inputFile # f => e \in files'
            /\ \A e \in EntriesOf(files, f) :
                 e.status \in {PENDING, UPLOADING} =>
                   \E d \in EntriesOf(files', f) :
                     d.status = (IF xfer'[f] = "succeeded" THEN COMPLETED ELSE FAILED)]_vars

\* two transfers ran side by side: one file is completed while the other,
\* whose put was made no later, is still in flight and uploading
C16_Witness ==
  \E f, g \in Files :
    /\ xfer[f] = "inflight"
    /\ \E e \in files : e.inputFile = f /\ e.status = UPLOADING
    /\ xfer[g] = "succeeded"
    /\ \E e \in files : e.inputFile = g /\ e.status = COMPLETED

\* C17: whenever the tracked set holds an entry the effect would find new,
\* the shared client has been constructed, so put is never invoked on an
\* undefined client: every put made was made on a constructed instance and
\* no transfer failed with the TypeError of such a call.
C17_ClientBeforePut ==
  /\ NewFilesToUpload(files, filesToUpload) # {} => client # 0
  /\ \A f \in Files :
       putCount[f] > 0 => (putClient[f] # 0 /\ xferErr[f] # TypeError)

\* an entry the effect has not seen yet is tracked, the client is
\* constructed, and another file's put has already been made on it
C17_Witness ==
  /\ NewFilesToUpload(files, filesToUpload) # {}
  /\ rendered # files
  /\ client # 0
  /\ \E f \in Files : putCount[f] = 1 /\ putClient[f] = client

\* C19: filesToUpload only grows, never holds the File of one identity
\* twice, and after each run of the effect holds the File of every entry of
\* the tracked set.
C19_FilesToUploadGrows ==
  /\ [][\A f \in Files :
          /\ filesToUpload'[f] >= filesToUpload[f]
          /\ filesToUpload'[f] <= 1]_vars
  /\ [][rendered' # rendered =>
          \A e \in files' : filesToUpload'[e.inputFile] >= 1]_vars

\* the effect has run, filesToUpload holds a File that is tracked and
\* another whose entry has been removed since
C19_Witness ==
  /\ rendered = files
  /\ \E f, g \in Files :
       /\ filesToUpload[f] = 1 /\ f \in Tracked(files)
       /\ filesToUpload[g] = 1 /\ g \notin Tracked(files)

\* C18: whatever INSERT statements have run, no two rows of user_customer
\* share a user_id and no two share a customer_id; an INSERT that is
\* rejected leaves the table as it was, and an accepted one adds one row
\* whose user_id and customer_id no row had before.
C18_OneCustomerPerUser ==
  /\ [](\A r, q \in user_customer :
          r # q => (r.user_id # q.user_id /\ r.customer_id # q.customer_id))
  /\ [][/\ sqlstate' # "00000" => user_customer' = user_customer
        /\ \A r \in user_customer' \ user_customer :
             \A q \in user_customer :
               q.user_id # r.user_id /\ q.customer_id # r.customer_id]_allvars

\* the table holds two rows and the last INSERT, repeating a user_id or a
\* customer_id of one of them, was rejected as a unique violation
C18_Witness ==
  /\ Cardinality(user_customer) = 2
  /\ sqlstate = "23505"

====
